---------------------------- MODULE Spec2Model ----------------------------
(***************************************************************************)
(* Model of irrd/server/http/metrics_generator.py: MetricsGenerator.       *)
(*                                                                         *)
(* Strings are sequences of one-character strings, compared by code point. *)
(* A text (str holding lines) is a sequence of tokens: the content of one  *)
(* line (a HELP comment, a TYPE comment, a sample), a newline character NL *)
(* or a run of blanks WS.  Rows returned by the storage collaborator are   *)
(* mappings: an optional key may be missing from the mapping, map to None  *)
(* or map to a value.                                                      *)
(***************************************************************************)
EXTENDS Integers, Sequences, FiniteSets, TLC

VARIABLES
    pc,                  \* position of the caller in generate_metrics
    sessions_open,       \* DatabaseHandler sessions opened and not closed
    environ,             \* os.environ[ENV_MAIN_STARTUP_TIME], or unset
    queries,             \* queries the current call handed to execute_query
    statistics_results,  \* local statistics_results (line 24)
    status_results,      \* local status_results (line 26)
    clock_reads,         \* the wall-clock reads of the current call
    document,            \* the value returned to the caller
    error                \* the exception that left generate_metrics

vars == <<pc, sessions_open, environ, queries, statistics_results,
          status_results, clock_reads, document, error>>

(***************************************************************************)
(* Bounds of the model.                                                    *)
(***************************************************************************)
MaxRows == 2        \* rows returned by the two queries of a call together
MaxClock == 1       \* wall-clock reads are in 0..MaxClock
MaxSessions == 1    \* no call starts with this many sessions left open
MaxSerial == 7      \* the largest serial of a status row

(***************************************************************************)
(* Strings.                                                                *)
(***************************************************************************)
\* the characters of the strings that are compared, in code point order
Alphabet == <<"-", "A", "B", "C">>

Ord(c) == CHOOSE i \in DOMAIN Alphabet : Alphabet[i] = c

RECURSIVE StrLess(_, _)
StrLess(a, b) ==
    IF b = <<>> THEN FALSE
    ELSE IF a = <<>> THEN TRUE
    ELSE IF Ord(Head(a)) # Ord(Head(b)) THEN Ord(Head(a)) < Ord(Head(b))
    ELSE StrLess(Tail(a), Tail(b))

RECURSIVE ParseInt(_)
ParseInt(s) ==
    IF s = <<>> THEN 0
    ELSE 10 * ParseInt(SubSeq(s, 1, Len(s) - 1))
         + (CHOOSE d \in 0..9 : ToString(d) = s[Len(s)])

(***************************************************************************)
(* Python values held by the rows.                                         *)
(***************************************************************************)
None == [type |-> "NoneType"]
PyInt(n) == [type |-> "int", value |-> n]
DateTime(t) == [type |-> "datetime", value |-> t]

(***************************************************************************)
(* Texts.                                                                  *)
(***************************************************************************)
NL == [kind |-> "nl"]
WS == [kind |-> "ws"]
Help(name) == [kind |-> "help", name |-> name]
Type(name) == [kind |-> "type", name |-> name, type |-> "gauge"]
Sample(name, labels, value) ==
    [kind |-> "sample", name |-> name, labels |-> labels, value |-> value]
Label(key, val) == [label |-> key, value |-> val]

IntText(n) == [format |-> "int", number |-> n]
FloatText(n) == [format |-> "float", number |-> n]
StrText(s) == [format |-> "str", chars |-> s]

IsSpace(tok) == tok.kind \in {"nl", "ws"}

\* textwrap.dedent: a line of blanks only becomes an empty line
Dedent(text) == SelectSeq(text, LAMBDA tok : tok.kind # "ws")

RECURSIVE LStrip(_)
LStrip(text) ==
    IF text # <<>> /\ IsSpace(Head(text)) THEN LStrip(Tail(text)) ELSE text

RECURSIVE RStrip(_)
RStrip(text) ==
    IF text # <<>> /\ IsSpace(text[Len(text)])
    THEN RStrip(SubSeq(text, 1, Len(text) - 1))
    ELSE text

Strip(text) == RStrip(LStrip(text))

\* sep.join(parts)
RECURSIVE Join(_, _)
Join(sep, parts) ==
    IF parts = <<>> THEN <<>>
    ELSE IF Len(parts) = 1 THEN parts[1]
    ELSE parts[1] \o sep \o Join(sep, Tail(parts))

\* sorted(rows, key=...): ascending and stable; keys[i] is the key of rows[i]
Sorted(rows, keys) ==
    LET Before(j, i) ==
            \/ StrLess(keys[j], keys[i])
            \/ keys[j] = keys[i] /\ j < i
        Rank(i) == 1 + Cardinality({j \in DOMAIN rows : Before(j, i)})
    IN  [r \in DOMAIN rows |-> rows[CHOOSE i \in DOMAIN rows : Rank(i) = r]]


(***************************************************************************)
(* The rendering methods of MetricsGenerator.  The indentation that        *)
(* textwrap.dedent removes from every line is not part of a token; the     *)
(* lines of blanks it empties are the WS tokens.                           *)
(***************************************************************************)
ENV_MAIN_STARTUP_TIME == "IRRD_MAIN_STARTUP_TIME"
version == <<"7">>

\* the literal of a block's header, between its triple quotes
BlockLiteral(name) == <<NL, Help(name), NL, Type(name), NL, WS>>

\* a block that does not end with its own newline
Block_NoNewline(name, lines) ==
    LStrip(Dedent(BlockLiteral(name))) \o Join(<<NL>>, lines)

\* textwrap.dedent(literal).lstrip() + '\n'.join(lines) + '\n'
Block(name, lines) ==
    LStrip(Dedent(BlockLiteral(name))) \o Join(<<NL>>, lines) \o <<NL>>

_generate_header(env, time) ==
    Strip(Dedent(<<
        NL, Help("irrd_info"),
        NL, Type("irrd_info"),
        NL, Sample("irrd_info", <<Label("version", version)>>, IntText(1)),
        NL, WS,
        NL, Help("irrd_uptime_seconds"),
        NL, Type("irrd_uptime_seconds"),
        NL, Sample("irrd_uptime_seconds", <<>>,
                   IntText(time - ParseInt(env[ENV_MAIN_STARTUP_TIME]))),
        NL, WS,
        NL, Help("irrd_startup_timestamp"),
        NL, Type("irrd_startup_timestamp"),
        NL, Sample("irrd_startup_timestamp", <<>>,
                   StrText(env[ENV_MAIN_STARTUP_TIME])),
        NL, WS >>)) \o <<NL>>

_generate_object_counts(statistics) ==
    LET Line(stat) ==
            <<Sample("irrd_object_class",
                     <<Label("source", stat.source),
                       Label("object_class", stat.object_class)>>,
                     IntText(stat.count))>>
        lines == [i \in DOMAIN statistics |-> Line(statistics[i])]
    IN  Block("irrd_object_class", lines)

\* rows lacking updated get a placeholder line instead of no line
_generate_updated_Placeholder(status, now) ==
    LET Line(stat) ==
            IF "updated" \in DOMAIN stat /\ stat.updated # None
            THEN <<Sample("irrd_seconds_since_last_update",
                          <<Label("source", stat.source)>>,
                          FloatText(now - stat.updated.value))>>
            ELSE <<Sample("irrd_seconds_since_last_update",
                          <<Label("source", stat.source)>>,
                          StrText(<<"+", "I", "n", "f">>))>>
        lines == [i \in DOMAIN status |-> Line(status[i])]
    IN  Block("irrd_seconds_since_last_update", lines)

_generate_updated(status, now) ==
    LET Line(stat) ==
            <<Sample("irrd_seconds_since_last_update",
                     <<Label("source", stat.source)>>,
                     FloatText(now - stat.updated.value))>>
        Skipped(stat) ==
            "updated" \notin DOMAIN stat \/ stat.updated = None
        kept == SelectSeq(status, LAMBDA stat : ~Skipped(stat))
        lines == [i \in DOMAIN kept |-> Line(kept[i])]
    IN  Block("irrd_seconds_since_last_update", lines)

\* rows lacking last_error_timestamp are skipped instead of getting +Inf
_generate_last_error_Skips(status, now) ==
    LET Line(stat) ==
            <<Sample("irrd_seconds_since_last_error",
                     <<Label("source", stat.source)>>,
                     FloatText(now - stat.last_error_timestamp.value))>>
        Skipped(stat) ==
            \/ "last_error_timestamp" \notin DOMAIN stat
            \/ stat.last_error_timestamp = None
        kept == SelectSeq(status, LAMBDA stat : ~Skipped(stat))
        lines == [i \in DOMAIN kept |-> Line(kept[i])]
    IN  Block("irrd_seconds_since_last_error", lines)

_generate_last_error(status, now) ==
    LET Line(stat) ==
            IF "last_error_timestamp" \in DOMAIN stat
               /\ stat.last_error_timestamp # None
            THEN <<Sample("irrd_seconds_since_last_error",
                          <<Label("source", stat.source)>>,
                          FloatText(now - stat.last_error_timestamp.value))>>
            ELSE <<Sample("irrd_seconds_since_last_error",
                          <<Label("source", stat.source)>>,
                          StrText(<<"+", "I", "n", "f">>))>>
        lines == [i \in DOMAIN status |-> Line(status[i])]
    IN  Block("irrd_seconds_since_last_error", lines)

_generate_serial_newest_mirror(status) ==
    LET Line(stat) ==
            <<Sample("irrd_serial_newest_mirror",
                     <<Label("source", stat.source)>>,
                     IntText(stat.serial_newest_mirror.value))>>
        Skipped(stat) ==
            "serial_newest_mirror" \notin DOMAIN stat \/ stat.serial_newest_mirror = None
        kept == SelectSeq(status, LAMBDA stat : ~Skipped(stat))
        lines == [i \in DOMAIN kept |-> Line(kept[i])]
    IN  Block("irrd_serial_newest_mirror", lines)

\* the row is skipped when its serial is falsy, so a serial of 0 is lost
_generate_serial_last_export_Falsy(status) ==
    LET Line(stat) ==
            <<Sample("irrd_serial_last_export",
                     <<Label("source", stat.source)>>,
                     IntText(stat.serial_last_export.value))>>
        Skipped(stat) ==
            \/ "serial_last_export" \notin DOMAIN stat
            \/ stat.serial_last_export = None
            \/ stat.serial_last_export.value = 0
        kept == SelectSeq(status, LAMBDA stat : ~Skipped(stat))
        lines == [i \in DOMAIN kept |-> Line(kept[i])]
    IN  Block("irrd_serial_last_export", lines)

_generate_serial_last_export(status) ==
    LET Line(stat) ==
            <<Sample("irrd_serial_last_export",
                     <<Label("source", stat.source)>>,
                     IntText(stat.serial_last_export.value))>>
        Skipped(stat) ==
            "serial_last_export" \notin DOMAIN stat \/ stat.serial_last_export = None
        kept == SelectSeq(status, LAMBDA stat : ~Skipped(stat))
        lines == [i \in DOMAIN kept |-> Line(kept[i])]
    IN  Block("irrd_serial_last_export", lines)

_generate_serial_oldest_journal(status) ==
    LET Line(stat) ==
            <<Sample("irrd_serial_oldest_journal",
                     <<Label("source", stat.source)>>,
                     IntText(stat.serial_oldest_journal.value))>>
        Skipped(stat) ==
            "serial_oldest_journal" \notin DOMAIN stat \/ stat.serial_oldest_journal = None
        kept == SelectSeq(status, LAMBDA stat : ~Skipped(stat))
        lines == [i \in DOMAIN kept |-> Line(kept[i])]
    IN  Block("irrd_serial_oldest_journal", lines)

_generate_serial_newest_journal(status) ==
    LET Line(stat) ==
            <<Sample("irrd_serial_newest_journal",
                     <<Label("source", stat.source)>>,
                     IntText(stat.serial_newest_journal.value))>>
        Skipped(stat) ==
            "serial_newest_journal" \notin DOMAIN stat \/ stat.serial_newest_journal = None
        kept == SelectSeq(status, LAMBDA stat : ~Skipped(stat))
        lines == [i \in DOMAIN kept |-> Line(kept[i])]
    IN  Block("irrd_serial_newest_journal", lines)

\* the statistics sorted by object class alone
StatisticsKey_ObjectClass(item) == item.object_class

\* the sort keys of lines 28 and 29
StatisticsKey(item) == item.source \o <<"-">> \o item.object_class
StatusKey(item) == item.source

\* the list results without its last block
RenderBlocks_DropsLast(statistics_rows, status_rows, env, reads) ==
    LET statistics ==
            Sorted(statistics_rows,
                   [i \in DOMAIN statistics_rows |->
                        StatisticsKey(statistics_rows[i])])
        status ==
            Sorted(status_rows,
                   [i \in DOMAIN status_rows |-> StatusKey(status_rows[i])])
    IN  << _generate_header(env, reads.header),
           _generate_object_counts(statistics),
           _generate_updated(status, reads.updated),
           _generate_last_error(status, reads.last_error),
           _generate_serial_newest_mirror(status),
           _generate_serial_last_export(status),
           _generate_serial_oldest_journal(status) >>

\* lines 28 to 40: the list results, for the clock reads of the call
RenderBlocks(statistics_rows, status_rows, env, reads) ==
    LET statistics ==
            Sorted(statistics_rows,
                   [i \in DOMAIN statistics_rows |->
                        StatisticsKey(statistics_rows[i])])
        status ==
            Sorted(status_rows,
                   [i \in DOMAIN status_rows |-> StatusKey(status_rows[i])])
    IN  << _generate_header(env, reads.header),
           _generate_object_counts(statistics),
           _generate_updated(status, reads.updated),
           _generate_last_error(status, reads.last_error),
           _generate_serial_newest_mirror(status),
           _generate_serial_last_export(status),
           _generate_serial_oldest_journal(status),
           _generate_serial_newest_journal(status) >>

\* line 42: '\n'.join(results) + '\n'
JoinResults(blocks) == Join(<<NL>>, blocks) \o <<NL>>

(***************************************************************************)
(* What the collaborators can hand to a call: the rows of the two queries, *)
(* the process environment and the wall clock.                             *)
(***************************************************************************)
Sources == {<<"A">>, <<"A", "-", "B">>}
ObjectClasses == {<<"C">>, <<"B", "-", "C">>}
Counts == {1, 42}

ObjectCountRows ==
    [source : Sources, object_class : ObjectClasses, count : Counts]

TimestampKeys == {"updated", "last_error_timestamp"}
SerialKeys == {"serial_newest_mirror", "serial_last_export",
               "serial_oldest_journal", "serial_newest_journal"}
OptionalKeys == TimestampKeys \cup SerialKeys

\* a status row: source and the optional keys of fields
StatusRow(source, fields) ==
    [k \in {"source"} \cup DOMAIN fields |->
        IF k = "source" THEN source ELSE fields[k]]

Only(key, value) == [k \in {key} |-> value]

\* the optional keys a source can have: none, all None, one alone, all,
\* and those of a mirror that was updated and never failed
ZeroSerialKeys == {"serial_newest_mirror", "serial_oldest_journal"}

StatusFields ==
    {[k \in {} |-> None], [k \in OptionalKeys |-> None]}
    \cup {Only(k, DateTime(0)) : k \in TimestampKeys}
    \cup {Only(k, PyInt(IF k \in ZeroSerialKeys THEN 0 ELSE MaxSerial)) :
            k \in SerialKeys}
    \cup {[k \in OptionalKeys |->
            IF k \in TimestampKeys THEN DateTime(0)
            ELSE PyInt(IF k \in ZeroSerialKeys THEN MaxSerial ELSE 0)]}
    \cup {[k \in {"updated", "last_error_timestamp", "serial_newest_mirror"} |->
            CASE k = "updated" -> DateTime(0)
              [] k = "last_error_timestamp" -> None
              [] OTHER -> PyInt(MaxSerial)]}

SourceStatusRows == {StatusRow(s, f) : s \in Sources, f \in StatusFields}

SeqsUpTo(S, n) == UNION {[1..k -> S] : k \in 0..n}

UnsetEnviron == [k \in {} |-> <<>>]
Environs == {UnsetEnviron, [k \in {ENV_MAIN_STARTUP_TIME} |-> <<"0">>]}

ClockReads ==
    {r \in [header : 0..MaxClock, updated : 0..MaxClock,
            last_error : 0..MaxClock] :
        r.header <= r.updated /\ r.updated <= r.last_error}

NoReads == [header |-> 0, updated |-> 0, last_error |-> 0]

(***************************************************************************)
(* generate_metrics, step by step.                                         *)
(***************************************************************************)
Init ==
    /\ pc = "idle"
    /\ sessions_open = 0
    /\ environ \in Environs
    /\ queries = <<>>
    /\ statistics_results = <<>>
    /\ status_results = <<>>
    /\ clock_reads = NoReads
    /\ document = <<>>
    /\ error = "none"

\* the exception leaves generate_metrics: its locals are gone, and nothing
\* on the way out closes the session
Raise(exception) ==
    /\ pc' = "raised"
    /\ error' = exception
    /\ statistics_results' = <<>>
    /\ status_results' = <<>>
    /\ clock_reads' = NoReads
    /\ document' = <<>>
    /\ UNCHANGED <<sessions_open, environ>>

\* line 21: database_handler = DatabaseHandler()
Call ==
    /\ pc \in {"idle", "returned", "raised"}
    /\ sessions_open < MaxSessions
    /\ pc' = "statistics_query"
    /\ sessions_open' = sessions_open + 1
    /\ queries' = <<>>
    /\ statistics_results' = <<>>
    /\ status_results' = <<>>
    /\ clock_reads' = NoReads
    /\ document' = <<>>
    /\ error' = "none"
    /\ UNCHANGED environ

\* lines 23-24: the statistics query returns rows
ExecuteStatisticsQuery ==
    /\ pc = "statistics_query"
    /\ \E rows \in SeqsUpTo(ObjectCountRows, MaxRows) :
            statistics_results' = rows
    /\ queries' = Append(queries, "statistics")
    /\ pc' = "status_query"
    /\ UNCHANGED <<sessions_open, environ, status_results, clock_reads,
                   document, error>>

\* lines 23-24: the statistics query fails
StatisticsQueryFails ==
    /\ pc = "statistics_query"
    /\ queries' = Append(queries, "statistics")
    /\ Raise("statistics_query")

\* lines 25-26: the status query returns rows
ExecuteStatusQuery ==
    /\ pc = "status_query"
    /\ \E rows \in SeqsUpTo(SourceStatusRows,
                            MaxRows - Len(statistics_results)) :
            status_results' = rows
    /\ queries' = Append(queries, "status")
    /\ pc' = "render"
    /\ UNCHANGED <<sessions_open, environ, statistics_results, clock_reads,
                   document, error>>

\* lines 25-26: the status query fails
StatusQueryFails ==
    /\ pc = "status_query"
    /\ queries' = Append(queries, "status")
    /\ Raise("status_query")

\* lines 28-42: sort the rows, render the blocks, close the session and
\* return the document
RenderAndReturn ==
    /\ pc = "render"
    /\ ENV_MAIN_STARTUP_TIME \in DOMAIN environ
    /\ \E reads \in ClockReads :
        /\ clock_reads' = reads
        /\ document' = JoinResults(RenderBlocks(statistics_results,
                                                status_results, environ, reads))
    /\ sessions_open' = sessions_open - 1
    /\ pc' = "returned"
    /\ UNCHANGED <<environ, queries, statistics_results, status_results,
                   error>>

\* the missing startup time is swallowed and the other blocks are returned
HeaderRaises_PartialDocument ==
    /\ pc = "render"
    /\ ENV_MAIN_STARTUP_TIME \notin DOMAIN environ
    /\ \E reads \in ClockReads :
        /\ clock_reads' = reads
        /\ document' = JoinResults(Tail(RenderBlocks(
                statistics_results, status_results,
                [k \in {ENV_MAIN_STARTUP_TIME} |-> <<"0">>], reads)))
    /\ sessions_open' = sessions_open - 1
    /\ pc' = "returned"
    /\ UNCHANGED <<environ, queries, statistics_results, status_results,
                   error>>

\* line 32: os.environ[ENV_MAIN_STARTUP_TIME] raises KeyError
HeaderRaises ==
    /\ pc = "render"
    /\ ENV_MAIN_STARTUP_TIME \notin DOMAIN environ
    /\ UNCHANGED queries
    /\ Raise("KeyError")

Next ==
    \/ Call
    \/ ExecuteStatisticsQuery
    \/ StatisticsQueryFails
    \/ ExecuteStatusQuery
    \/ StatusQueryFails
    \/ RenderAndReturn
    \/ HeaderRaises

Spec == Init /\ [][Next]_vars

(***************************************************************************)
(* Reading a returned document.                                            *)
(***************************************************************************)
Returned == pc = "returned"

\* the data lines of the metric name, in document order
SamplesOf(text, name) ==
    SelectSeq(text, LAMBDA tok : tok.kind = "sample" /\ tok.name = name)

\* the number of newline characters that end text[1..i]
RECURSIVE NewlinesBefore(_, _)
NewlinesBefore(text, i) ==
    IF i >= 1 /\ text[i] = NL THEN 1 + NewlinesBefore(text, i - 1) ELSE 0

HelpPositions(text) == {i \in DOMAIN text : text[i].kind = "help"}

\* the samples are the lines of the rows at indexes, one line per row
OneLinePerRow(samples, rows, indexes, IsLineOf(_, _)) ==
    /\ Len(samples) = Cardinality(indexes)
    /\ \E f \in [DOMAIN samples -> indexes] :
        /\ \A i, j \in DOMAIN samples : f[i] = f[j] => i = j
        /\ \A i \in DOMAIN samples : IsLineOf(samples[i], rows[f[i]])

Has(stat, key) == key \in DOMAIN stat /\ stat[key] # None

RowsWith(rows, key) == {i \in DOMAIN rows : Has(rows[i], key)}

SourceOf(sample) == sample.labels[1].value

AscendingBy(samples, Key(_)) ==
    \A i, j \in DOMAIN samples :
        i < j => ~StrLess(Key(samples[j]), Key(samples[i]))

(***************************************************************************)
(* C1: every call of generate_metrics that opened a storage session has    *)
(* closed it when control is back with the caller, whether the call        *)
(* returned or raised.                                                     *)
(***************************************************************************)
C1_SessionClosedOnEveryExit ==
    pc \in {"returned", "raised"} => sessions_open = 0

(***************************************************************************)
(* C2 as claimed: the returned document ends with exactly one newline and  *)
(* no '# HELP' line follows a blank line.                                  *)
(***************************************************************************)
C2_SingleNewlineSeparators ==
    Returned =>
        /\ NewlinesBefore(document, Len(document)) = 1
        /\ \A i \in HelpPositions(document) :
                NewlinesBefore(document, i - 1) <= 1

(***************************************************************************)
(* C2 as amended: the returned document ends with two newlines when the    *)
(* last block has data lines and with three when it has none, and every    *)
(* '# HELP' line but the first follows one blank line when the line before *)
(* the blank is a data line, and two when it is a '# TYPE' line.           *)
(***************************************************************************)
C2_BlankLineSeparators ==
    Returned =>
        /\ NewlinesBefore(document, Len(document)) =
                IF SamplesOf(document, "irrd_serial_newest_journal") = <<>>
                THEN 3 ELSE 2
        /\ \A i \in HelpPositions(document) \ {1} :
                LET n == NewlinesBefore(document, i - 1)
                    before == document[i - 1 - n]
                IN  \/ before.kind = "sample" /\ n = 2
                    \/ before.kind = "type" /\ n = 3

C2_Witness ==
    /\ Returned
    /\ statistics_results # <<>>
    /\ \E i \in DOMAIN status_results :
        /\ Has(status_results[i], "serial_newest_journal")
        /\ ~Has(status_results[i], "serial_last_export")

(***************************************************************************)
(* C3: the irrd_seconds_since_last_error block has exactly one data line   *)
(* per status row; its value is +Inf exactly when last_error_timestamp is  *)
(* missing or None, and otherwise the block's now minus the timestamp.     *)
(***************************************************************************)
IsLastErrorLine(sample, stat) ==
    /\ sample.labels = <<Label("source", stat.source)>>
    /\ sample.value =
        IF Has(stat, "last_error_timestamp")
        THEN FloatText(clock_reads.last_error
                       - stat.last_error_timestamp.value)
        ELSE StrText(<<"+", "I", "n", "f">>)

C3_LastErrorLinePerRow ==
    Returned =>
        LET samples == SamplesOf(document, "irrd_seconds_since_last_error")
        IN  /\ Len(samples) = Len(status_results)
            /\ OneLinePerRow(samples, status_results, DOMAIN status_results,
                             IsLastErrorLine)

C3_Witness ==
    /\ Returned
    /\ clock_reads.updated < clock_reads.last_error
    /\ \E i, j \in DOMAIN status_results :
        /\ Has(status_results[i], "last_error_timestamp")
        /\ ~Has(status_results[j], "last_error_timestamp")

(***************************************************************************)
(* C4: the irrd_object_class block has exactly one data line per           *)
(* statistics row, labelled source and object_class with the count as      *)
(* value, in ascending order of source + "-" + object_class, whatever the  *)
(* order the rows were returned in.                                        *)
(***************************************************************************)
IsObjectCountLine(sample, stat) ==
    /\ sample.labels = <<Label("source", stat.source),
                         Label("object_class", stat.object_class)>>
    /\ sample.value = IntText(stat.count)

CompositeKey(sample) ==
    sample.labels[1].value \o <<"-">> \o sample.labels[2].value

C4_ObjectCountLinesSorted ==
    Returned =>
        LET samples == SamplesOf(document, "irrd_object_class")
        IN  /\ OneLinePerRow(samples, statistics_results,
                             DOMAIN statistics_results, IsObjectCountLine)
            /\ AscendingBy(samples, CompositeKey)

C4_Witness ==
    /\ Returned
    /\ Len(statistics_results) = 2
    /\ StrLess(StatisticsKey(statistics_results[2]),
               StatisticsKey(statistics_results[1]))

(***************************************************************************)
(* C5: the irrd_seconds_since_last_update block has a data line for a row  *)
(* if and only if the row's updated is present and not None; the other     *)
(* rows give no line, so the block has as many lines as rows with updated, *)
(* at most the number of rows.                                             *)
(***************************************************************************)
IsUpdatedLine(sample, stat) ==
    /\ sample.labels = <<Label("source", stat.source)>>
    /\ sample.value = FloatText(clock_reads.updated - stat.updated.value)

C5_UpdatedLinesOnlyWhenPresent ==
    Returned =>
        LET samples == SamplesOf(document, "irrd_seconds_since_last_update")
        IN  /\ OneLinePerRow(samples, status_results,
                             RowsWith(status_results, "updated"),
                             IsUpdatedLine)
            /\ Len(samples) <= Len(status_results)

C5_Witness ==
    /\ Returned
    /\ \E i, j \in DOMAIN status_results :
        /\ Has(status_results[i], "updated")
        /\ "updated" \notin DOMAIN status_results[j]

(***************************************************************************)
(* C6: each of the four serial blocks has one data line for a row if and   *)
(* only if the row's serial is present and not None (0 included), the      *)
(* value is that integer, and the lines are in ascending source order.     *)
(***************************************************************************)
SerialMetric(key) ==
    CASE key = "serial_newest_mirror" -> "irrd_serial_newest_mirror"
      [] key = "serial_last_export" -> "irrd_serial_last_export"
      [] key = "serial_oldest_journal" -> "irrd_serial_oldest_journal"
      [] key = "serial_newest_journal" -> "irrd_serial_newest_journal"

C6_SerialLinesOnlyWhenPresent ==
    Returned =>
        \A key \in SerialKeys :
            LET samples == SamplesOf(document, SerialMetric(key))
                IsSerialLine(sample, stat) ==
                    /\ sample.labels = <<Label("source", stat.source)>>
                    /\ sample.value = IntText(stat[key].value)
            IN  /\ OneLinePerRow(samples, status_results,
                                 RowsWith(status_results, key), IsSerialLine)
                /\ AscendingBy(samples, SourceOf)

C6_Witness ==
    /\ Returned
    /\ \E i, j \in DOMAIN status_results :
        /\ DOMAIN status_results[i] \cap SerialKeys = {"serial_newest_mirror"}
        /\ Has(status_results[i], "serial_newest_mirror")
        /\ Has(status_results[j], "serial_last_export")
        /\ status_results[j].serial_last_export.value = 0
        /\ StrLess(status_results[j].source, status_results[i].source)
        /\ j > i

(***************************************************************************)
(* C7: generate_metrics has no partial failure.  When a query fails or the *)
(* startup time is missing, that failure reaches the caller, no query was  *)
(* handed to the collaborator twice and no document exists; otherwise the  *)
(* call returns a document that holds all the blocks.                      *)
(***************************************************************************)
AllMetrics ==
    <<"irrd_info", "irrd_uptime_seconds", "irrd_startup_timestamp",
      "irrd_object_class", "irrd_seconds_since_last_update",
      "irrd_seconds_since_last_error", "irrd_serial_newest_mirror",
      "irrd_serial_last_export", "irrd_serial_oldest_journal",
      "irrd_serial_newest_journal">>

HelpNames(text) ==
    LET helps == SelectSeq(text, LAMBDA tok : tok.kind = "help")
    IN  [i \in DOMAIN helps |-> helps[i].name]

TypeNames(text) ==
    LET types == SelectSeq(text, LAMBDA tok : tok.kind = "type")
    IN  [i \in DOMAIN types |-> types[i].name]

C7_FailsEntirelyOrReturnsAll ==
    /\ pc # "returned" => document = <<>>
    /\ pc = "raised" =>
        \/ error = "statistics_query" /\ queries = <<"statistics">>
        \/ error = "status_query" /\ queries = <<"statistics", "status">>
        \/ /\ error = "KeyError"
           /\ queries = <<"statistics", "status">>
           /\ ENV_MAIN_STARTUP_TIME \notin DOMAIN environ
    /\ Returned =>
        /\ error = "none"
        /\ queries = <<"statistics", "status">>
        /\ ENV_MAIN_STARTUP_TIME \in DOMAIN environ
        /\ HelpNames(document) = AllMetrics
        /\ TypeNames(document) = AllMetrics

C7_Witness ==
    /\ pc = "raised"
    /\ error = "KeyError"
    /\ document = <<>>

(***************************************************************************)
(* C8 as claimed: with no statistics row and no status row the document    *)
(* holds the three samples of the header block and six blocks that are a   *)
(* '# HELP' line and a '# TYPE' line with no data line.                    *)
(***************************************************************************)
HeaderMetrics ==
    <<"irrd_info", "irrd_uptime_seconds", "irrd_startup_timestamp">>

SampleNames(text) ==
    LET samples == SelectSeq(text, LAMBDA tok : tok.kind = "sample")
    IN  [i \in DOMAIN samples |-> samples[i].name]

\* the '# TYPE' lines that no data line follows
EmptyBodied(text) ==
    {i \in DOMAIN text :
        /\ text[i].kind = "type"
        /\ i > 2 /\ text[i - 1] = NL /\ text[i - 2] = Help(text[i].name)
        /\ \A j \in DOMAIN text :
            (j > i /\ \A k \in (i + 1)..(j - 1) : text[k] = NL)
                => text[j].kind # "sample"}

NoRows == statistics_results = <<>> /\ status_results = <<>>

C8_SixEmptyBlocks ==
    Returned /\ NoRows =>
        /\ SampleNames(document) = HeaderMetrics
        /\ Cardinality(EmptyBodied(document)) = 6

(***************************************************************************)
(* C8 as amended: with no statistics row and no status row the document    *)
(* holds the three samples of the header block and seven blocks that are a *)
(* '# HELP' line and a '# TYPE' line with no data line, one for each of    *)
(* the metrics after the header.                                           *)
(***************************************************************************)
C8_SevenEmptyBlocks ==
    Returned /\ NoRows =>
        /\ SampleNames(document) = HeaderMetrics
        /\ Cardinality(EmptyBodied(document)) = 7
        /\ {document[i].name : i \in EmptyBodied(document)} =
                {AllMetrics[n] : n \in 4..10}

C8_Witness == Returned /\ NoRows /\ clock_reads.header > 0

(***************************************************************************)
(* C10: the returned document does not depend on the order in which the    *)
(* rows were returned: with pairwise distinct (source, object_class) pairs *)
(* and pairwise distinct status sources, every other order of the same     *)
(* rows gives the same document for the same clock reads.                  *)
(***************************************************************************)
Orders(rows) ==
    {p \in [DOMAIN rows -> DOMAIN rows] :
        \A i, j \in DOMAIN rows : p[i] = p[j] => i = j}

Reordered(rows, p) == [i \in DOMAIN rows |-> rows[p[i]]]

DistinctBy(rows, Key(_)) ==
    \A i, j \in DOMAIN rows : Key(rows[i]) = Key(rows[j]) => i = j

SourceAndClass(stat) == <<stat.source, stat.object_class>>

C10_OrderOfRowsIrrelevant ==
    (/\ Returned
     /\ DistinctBy(statistics_results, SourceAndClass)
     /\ DistinctBy(status_results, StatusKey)) =>
        \A p \in Orders(statistics_results), q \in Orders(status_results) :
            JoinResults(RenderBlocks(Reordered(statistics_results, p),
                                     Reordered(status_results, q),
                                     environ, clock_reads)) = document

=============================================================================
